---- MODULE Spec2Model ----
(***************************************************************************)
(* A model of the quality-problem RAG chatbot: the document loader         *)
(* (loaders/load_documents.py), the vector store builder                   *)
(* (vectorstore/build_vectorstore.py), the query handler                   *)
(* (rag/query_handler.py) and the console, web and demo front ends         *)
(* (main.py, app.py, demo.py).                                             *)
(*                                                                         *)
(* Text is a sequence of one-character strings.  A Document (a chunk) is   *)
(* a record [page_content, metadata]; metadata is a function from keys to  *)
(* values, so that a missing key is a key outside its domain.  An          *)
(* exception is modelled by the field "raised" of what an operation        *)
(* returns.  The third-party services are the environment: the embedding   *)
(* model is an arbitrary function `embed` from text to a vector (here a    *)
(* number), Python's hash() an arbitrary function `pyhash` from text to a  *)
(* hash value, both fixed for the life of a process, and every embedding   *)
(* call or LLM call can fail.                                              *)
(***************************************************************************)
EXTENDS Integers, Sequences, FiniteSets, TLC

VARIABLES
    apiKey,       \* OPENAI_API_KEY is set in the environment
    fs,           \* the data folder: [exists, files], files in os.walk order
    disk,         \* the index directory faiss_index: [state, docs]
    embed,        \* the embedding model: text -> vector
    pyhash,       \* Python's hash() on str
    vectorstore,  \* RAGQueryHandler.vectorstore
    calls,        \* the vector-store searches and LLM calls of the last operation
    result,       \* what the last operation returned or raised
    indexed,      \* the document lists that went into the index on disk, oldest first
    entry,        \* the entry point that was started: "web", "console" or "demo"
    pc,           \* where that process is
    session,      \* the web app's st.session_state
    shown         \* what the front end displayed for the last action

vars == <<apiKey, fs, disk, embed, pyhash, vectorstore, calls, result, indexed,
          entry, pc, session, shown>>

-----------------------------------------------------------------------------
(* Text *)

Min(a, b) == IF a < b THEN a ELSE b

\* c repeated n times
Rep(c, n) == [i \in 1..n |-> c]

\* Python's s[:n]
Take(s, n) == SubSeq(s, 1, Min(n, Len(s)))

\* All sequences over S of length lo..hi
SeqsOf(S, lo, hi) == UNION {[1..n -> S] : n \in lo..hi}

\* dict.get(key, default)
MetaGet(m, key, default) == IF key \in DOMAIN m THEN m[key] ELSE default

\* "不明", the default of a missing metadata key
Unknown == "unknown"

NoMeta == [k \in {} |-> ""]

Doc(text, meta) == [page_content |-> text, metadata |-> meta]

FileMeta(name, path, ext) ==
    [source_file |-> name, source_path |-> path, file_type |-> ext]

-----------------------------------------------------------------------------
(* The vector store (FAISS, flat L2 index) *)

None == [loaded |-> FALSE, docs |-> <<>>]

Store(docs) == [loaded |-> TRUE, docs |-> docs]

\* st.session_state.handler: None, or a handler and its vector store
NoHandler == [exists |-> FALSE, vectorstore |-> None]

Handler(vs) == [exists |-> TRUE, vectorstore |-> vs]

\* squared L2 distance of the query's and the chunk's embeddings
Distance(query, doc) ==
    (embed[query] - embed[doc.page_content]) * (embed[query] - embed[doc.page_content])

\* The positions 1..n of docs, nearest to the query first, and the one stored
\* earlier first among the equally near: position n is put behind every
\* position that is at most as far.
RECURSIVE RankUpTo(_, _, _)
RankUpTo(docs, query, n) ==
    IF n = 0
    THEN <<>>
    ELSE LET prev == RankUpTo(docs, query, n - 1)
             d    == Distance(query, docs[n])
             m    == Cardinality({r \in 1..Len(prev) :
                                    Distance(query, docs[prev[r]]) <= d})
         IN  SubSeq(prev, 1, m) \o <<n>> \o SubSeq(prev, m + 1, Len(prev))

\* The positions of docs, nearest first.
Ranking(docs, query) == RankUpTo(docs, query, Len(docs))

\* vectorstore.similarity_search_with_score(query, k): the k nearest chunks
\* with their distances, nearest first; fewer when the index holds fewer.
similarity_search_with_score(docs, query, k) ==
    LET rk == Ranking(docs, query)
    IN  [r \in 1..Min(k, Len(docs)) |->
            [doc |-> docs[rk[r]], score |-> Distance(query, docs[rk[r]])]]

\* vectorstore.similarity_search(query, k)
similarity_search(docs, query, k) ==
    LET scored == similarity_search_with_score(docs, query, k)
    IN  [r \in 1..Len(scored) |-> scored[r].doc]

\* One entry of `calls`: a search of the vector store (the query is embedded,
\* then the k nearest chunks are returned) ...
Call(service, query, k, docs, ok) ==
    [service |-> service, query |-> query, k |-> k, docs |-> docs, ok |-> ok]

\* ... or a call of the LLM with the retrieved chunks as context, which
\* generates `out`.
LlmCall(query, docs, ok, out) ==
    [service |-> "llm", query |-> query, docs |-> docs, ok |-> ok, out |-> out]

Returned(ret, cs) == [raised |-> FALSE, ret |-> ret, calls |-> cs]

Raised(cs) == [raised |-> TRUE, ret |-> <<>>, calls |-> cs]

\* What the services do during one operation.
ServiceOutcomes == {"ok", "embedding_error", "llm_error"}

-----------------------------------------------------------------------------
(* RAGQueryHandler *)

\* The answer of handle_query when no index is loaded.
NotLoadedAnswer == "error: vector store not loaded, build the index first"

\* k of the retriever inside handle_query
RetrieverK == 5

\* the length of a source's content preview
PreviewLen == 200

Ellipsis == <<".", ".", ".">>

\* A source whose preview is the whole content.
source_info_untrimmed(doc) ==
    [file            |-> MetaGet(doc.metadata, "source_file", Unknown),
     type            |-> MetaGet(doc.metadata, "file_type", Unknown),
     content_preview |-> doc.page_content \o Ellipsis]

\* One entry of handle_query's sources.
source_info(doc) ==
    [file            |-> MetaGet(doc.metadata, "source_file", Unknown),
     type            |-> MetaGet(doc.metadata, "file_type", Unknown),
     content_preview |-> Take(doc.page_content, PreviewLen) \o Ellipsis]

\* The RetrievalQA chain of handle_query on a loaded index: retrieve, then
\* generate; `answer` is what the LLM generates when it is reached.
retrieval_qa(vs, query, return_sources, svc, answer) ==
    IF svc = "embedding_error"
    THEN Raised(<<Call("search", query, RetrieverK, <<>>, FALSE)>>)
    ELSE LET docs == similarity_search(vs.docs, query, RetrieverK)
             found == Call("search", query, RetrieverK, docs, TRUE)
         IN  IF svc = "llm_error"
             THEN Raised(<<found, LlmCall(query, docs, FALSE, "")>>)
             ELSE Returned(
                    [answer  |-> answer,
                     sources |-> IF return_sources
                                 THEN [i \in 1..Len(docs) |-> source_info(docs[i])]
                                 ELSE <<>>],
                    <<found, LlmCall(query, docs, TRUE, answer)>>)

\* handle_query without its check for a missing index: the chain is built on
\* None, which raises.
handle_query_unchecked(vs, query, return_sources, svc, answer) ==
    IF ~vs.loaded
    THEN Raised(<<>>)
    ELSE retrieval_qa(vs, query, return_sources, svc, answer)

\* RAGQueryHandler.handle_query(query, return_sources)
handle_query(vs, query, return_sources, svc, answer) ==
    IF ~vs.loaded
    THEN Returned([answer |-> NotLoadedAnswer, sources |-> <<>>], <<>>)
    ELSE retrieval_qa(vs, query, return_sources, svc, answer)

\* RAGQueryHandler.search_similar_cases(query, k)
search_similar_cases(vs, query, k, svc) ==
    IF ~vs.loaded
    THEN Returned(<<>>, <<>>)
    ELSE IF svc = "embedding_error"
    THEN Raised(<<Call("search", query, k, <<>>, FALSE)>>)
    ELSE LET scored == similarity_search_with_score(vs.docs, query, k)
         IN  Returned(
                [i \in 1..Len(scored) |->
                    [content          |-> scored[i].doc.page_content,
                     metadata         |-> scored[i].doc.metadata,
                     similarity_score |-> scored[i].score]],
                <<Call("search", query, k,
                       [i \in 1..Len(scored) |-> scored[i].doc], TRUE)>>)

\* RAGQueryHandler.get_relevant_documents(query, k)
get_relevant_documents(vs, query, k, svc) ==
    IF ~vs.loaded
    THEN Returned(<<>>, <<>>)
    ELSE IF svc = "embedding_error"
    THEN Raised(<<Call("search", query, k, <<>>, FALSE)>>)
    ELSE LET docs == similarity_search(vs.docs, query, k)
         IN  Returned(
                [i \in 1..Len(docs) |->
                    [content     |-> docs[i].page_content,
                     source_file |-> MetaGet(docs[i].metadata, "source_file", Unknown),
                     file_type   |-> MetaGet(docs[i].metadata, "file_type", Unknown),
                     source_path |-> MetaGet(docs[i].metadata, "source_path", "")]],
                <<Call("search", query, k, docs, TRUE)>>)

\* hash(doc.page_content)
content_hash(doc) == pyhash[doc.page_content]

\* The inner loop with each kept chunk put in front of the list.
RECURSIVE KeepUnseenInFront(_, _, _, _)
KeepUnseenInFront(docs, j, keyword, acc) ==
    IF j > Len(docs)
    THEN acc
    ELSE IF content_hash(docs[j]) \notin acc.seen_contents
    THEN KeepUnseenInFront(docs, j + 1, keyword,
            [seen_contents |-> acc.seen_contents \cup {content_hash(docs[j])},
             all_results   |-> <<[content  |-> docs[j].page_content,
                                  metadata |-> docs[j].metadata,
                                  keyword  |-> keyword]>> \o acc.all_results])
    ELSE KeepUnseenInFront(docs, j + 1, keyword, acc)

\* The inner loop of search_by_keywords: the chunks one keyword surfaced, from
\* the j-th on, against what was kept so far.
RECURSIVE KeepUnseen(_, _, _, _)
KeepUnseen(docs, j, keyword, acc) ==
    IF j > Len(docs)
    THEN acc
    ELSE IF content_hash(docs[j]) \notin acc.seen_contents
    THEN KeepUnseen(docs, j + 1, keyword,
            [seen_contents |-> acc.seen_contents \cup {content_hash(docs[j])},
             all_results   |-> Append(acc.all_results,
                                  [content  |-> docs[j].page_content,
                                   metadata |-> docs[j].metadata,
                                   keyword  |-> keyword])])
    ELSE KeepUnseen(docs, j + 1, keyword, acc)

\* The outer loop of search_by_keywords, from the i-th keyword on; the search
\* of the failAt-th keyword raises (0: none does).
RECURSIVE KeywordLoop(_, _, _, _, _, _, _)
KeywordLoop(docs, keywords, k, failAt, i, acc, cs) ==
    IF i > Len(keywords)
    THEN Returned(acc.all_results, cs)
    ELSE IF i = failAt
    THEN Raised(Append(cs, Call("search", keywords[i], k, <<>>, FALSE)))
    ELSE LET found == similarity_search(docs, keywords[i], k)
         IN  KeywordLoop(docs, keywords, k, failAt, i + 1,
                         KeepUnseen(found, 1, keywords[i], acc),
                         Append(cs, Call("search", keywords[i], k, found, TRUE)))

\* RAGQueryHandler.search_by_keywords(keywords, k)
search_by_keywords(vs, keywords, k, failAt) ==
    IF ~vs.loaded
    THEN Returned(<<>>, <<>>)
    ELSE KeywordLoop(vs.docs, keywords, k, failAt, 1,
                     [seen_contents |-> {}, all_results |-> <<>>], <<>>)

-----------------------------------------------------------------------------
(* The query handler on its own: every method of a constructed handler,    *)
(* over every small index, embedding model and hash function.              *)

\* the longest index a handler is given
MaxIndexLen == 3

\* the largest k a caller passes
MaxK == 2

\* the longest keyword list a caller passes
MaxKeywords == 2

QueryTexts == {<<"q">>, <<"w">>}

Answers == {"answer"}

EmbedValues == {0, 1}

HashValues == {0, 1}

\* Two files with the same text and one chunk without metadata.
SampleChunks ==
    {Doc(<<"x">>, FileMeta("a.txt", "data/a.txt", ".txt")),
     Doc(<<"x">>, FileMeta("b.csv", "data/b.csv", ".csv")),
     Doc(<<"y">>, NoMeta)}

ContentsOf(chunks) == {c.page_content : c \in chunks}

\* A process that runs none of the front ends.
NoFrontEnd ==
    /\ entry = "none"
    /\ pc = "none"
    /\ session = [initialized |-> FALSE, handler |-> NoHandler,
                  chat_history |-> <<>>, index_built |-> FALSE]
    /\ shown = "nothing"

NoResult == [op |-> "none", raised |-> FALSE, ret |-> <<>>]

InitQuery ==
    /\ apiKey = TRUE
    /\ fs = [exists |-> FALSE, files |-> <<>>]
    /\ disk = [state |-> "absent", docs |-> <<>>]
    /\ embed \in [QueryTexts \cup ContentsOf(SampleChunks) -> EmbedValues]
    /\ pyhash \in [ContentsOf(SampleChunks) -> HashValues]
    /\ vectorstore \in {None} \cup {Store(d) : d \in SeqsOf(SampleChunks, 1, MaxIndexLen)}
    /\ calls = <<>>
    /\ result = NoResult
    /\ indexed = <<>>
    /\ NoFrontEnd

\* The caller holds no result and can call a method of the handler.
Ready == result.op = "none"

\* A method of the handler was called, and `r` is what it did.
Called(op, args, r) ==
    /\ result' = [op |-> op, args |-> args, raised |-> r.raised, ret |-> r.ret]
    /\ calls' = r.calls
    /\ UNCHANGED <<apiKey, fs, disk, embed, pyhash, vectorstore, indexed,
                   entry, pc, session, shown>>

HandleQuery ==
    Ready /\ \E q \in QueryTexts, rs \in BOOLEAN, svc \in ServiceOutcomes, a \in Answers :
        Called("handle_query", [query |-> q, return_sources |-> rs],
               handle_query(vectorstore, q, rs, svc, a))

SearchSimilarCases ==
    Ready /\ \E q \in QueryTexts, k \in 1..MaxK, svc \in {"ok", "embedding_error"} :
        Called("search_similar_cases", [query |-> q, k |-> k],
               search_similar_cases(vectorstore, q, k, svc))

GetRelevantDocuments ==
    Ready /\ \E q \in QueryTexts, k \in 1..MaxK, svc \in {"ok", "embedding_error"} :
        Called("get_relevant_documents", [query |-> q, k |-> k],
               get_relevant_documents(vectorstore, q, k, svc))

SearchByKeywords ==
    Ready /\ \E kws \in SeqsOf(QueryTexts, 0, MaxKeywords), k \in 1..MaxK :
        \E failAt \in 0..Len(kws) :
            Called("search_by_keywords", [keywords |-> kws, k |-> k],
                   search_by_keywords(vectorstore, kws, k, failAt))

\* The caller is done with the result and is ready for its next call; a
\* handler it had just constructed is dropped with it.
Discard ==
    /\ result.op # "none"
    /\ result' = NoResult
    /\ calls' = <<>>
    /\ vectorstore' = IF result.op = "RAGQueryHandler" THEN None ELSE vectorstore
    /\ UNCHANGED <<apiKey, fs, disk, embed, pyhash, indexed, entry, pc, session, shown>>

NextQuery ==
    \/ HandleQuery
    \/ SearchSimilarCases
    \/ GetRelevantDocuments
    \/ SearchByKeywords
    \/ Discard

SpecQuery == InitQuery /\ [][NextQuery]_vars

-----------------------------------------------------------------------------
(* Claims about the query handler *)

QueryOps ==
    {"handle_query", "search_similar_cases", "get_relevant_documents",
     "search_by_keywords"}

\* C1: with no index loaded, every query method returns without raising and
\* without any search, embedding or LLM call: handle_query the placeholder
\* answer with an empty sources list, the three search methods an empty list.
C1_NoIndexEmptyResult ==
    (~vectorstore.loaded /\ result.op \in QueryOps) =>
        /\ ~result.raised
        /\ calls = <<>>
        /\ result.op = "handle_query" =>
              result.ret = [answer |-> NotLoadedAnswer, sources |-> <<>>]
        /\ result.op # "handle_query" => result.ret = <<>>

C1_Witness ==
    /\ ~vectorstore.loaded
    /\ result.op = "search_by_keywords"
    /\ Len(result.args.keywords) = MaxKeywords

\* search_by_keywords was called on a loaded index and returned.
KeywordResult ==
    vectorstore.loaded /\ result.op = "search_by_keywords" /\ ~result.raised

\* The contents the search of the p-th keyword surfaced.
Surfaced(p) == {calls[p].docs[r].page_content : r \in 1..Len(calls[p].docs)}

\* C2: the list search_by_keywords returns holds no content twice, holds every
\* content that the search of some keyword surfaced, and tags it with the
\* earliest keyword of the caller's list whose search surfaced it.
C2_DedupFirstSeenWins ==
    KeywordResult =>
        LET ret == result.ret
            kws == result.args.keywords
        IN  /\ \A i, j \in 1..Len(ret) : ret[i].content = ret[j].content => i = j
            /\ \A p \in 1..Len(kws) : \A c \in Surfaced(p) :
                  \E i \in 1..Len(ret) : ret[i].content = c
            /\ \A i \in 1..Len(ret) :
                  \E p \in 1..Len(kws) :
                      /\ ret[i].keyword = kws[p]
                      /\ ret[i].content \in Surfaced(p)
                      /\ \A q \in 1..(p - 1) : ret[i].content \notin Surfaced(q)

\* The place of the i-th returned entry: the first position of its keyword in
\* the caller's list, and the first position of its content in what the search
\* of that keyword returned.
KeywordPlace(i) ==
    LET kws == result.args.keywords
    IN  CHOOSE p \in 1..Len(kws) :
            /\ kws[p] = result.ret[i].keyword
            /\ \A q \in 1..(p - 1) : kws[q] # result.ret[i].keyword

SearchPlace(i) ==
    LET docs == calls[KeywordPlace(i)].docs
    IN  CHOOSE r \in 1..Len(docs) :
            /\ docs[r].page_content = result.ret[i].content
            /\ \A t \in 1..(r - 1) : docs[t].page_content # result.ret[i].content

\* C3: the entries of the list search_by_keywords returns come keyword by
\* keyword in the caller's order and, within one keyword, in the order of that
\* keyword's search; each is a chunk of its keyword's search; and a content
\* kept under one keyword is not kept again under a later one.
C3_KeywordThenSimilarityOrder ==
    KeywordResult =>
        LET ret == result.ret
            kws == result.args.keywords
        IN  /\ Len(calls) = Len(kws)
            /\ \A p \in 1..Len(kws) :
                  calls[p].query = kws[p] /\ calls[p].k = result.args.k
            /\ \A i \in 1..Len(ret) :
                  /\ \E p \in 1..Len(kws) : kws[p] = ret[i].keyword
                  /\ ret[i].content \in Surfaced(KeywordPlace(i))
                  /\ ret[i].metadata =
                        calls[KeywordPlace(i)].docs[SearchPlace(i)].metadata
            /\ \A i, j \in 1..Len(ret) :
                  i < j =>
                      \/ KeywordPlace(i) < KeywordPlace(j)
                      \/ /\ KeywordPlace(i) = KeywordPlace(j)
                         /\ SearchPlace(i) < SearchPlace(j)
            /\ \A i, j \in 1..Len(ret) :
                  KeywordPlace(i) < KeywordPlace(j) => ret[i].content # ret[j].content

\* Two keywords each kept an entry, and the later keyword's search also
\* surfaced a content that the earlier one had kept.
C3_Witness ==
    /\ KeywordResult
    /\ Len(result.args.keywords) = 2
    /\ \E i, j \in 1..Len(result.ret) :
          /\ result.ret[i].keyword = result.args.keywords[1]
          /\ result.ret[j].keyword = result.args.keywords[2]
          /\ result.ret[i].keyword # result.ret[j].keyword
          /\ result.ret[i].content \in Surfaced(2)

-----------------------------------------------------------------------------
(* Answer synthesis on its own: handle_query over indexes longer than the  *)
(* retriever's k, with contents around the length of a preview.            *)

\* the longest index handle_query is given
MaxAnswerIndexLen == 6

\* A chunk longer than a preview, and one exactly as long without metadata.
LongChunks ==
    {Doc(Rep("a", PreviewLen + 1), FileMeta("a.txt", "data/a.txt", ".txt")),
     Doc(Rep("b", PreviewLen), NoMeta)}

InitAnswer ==
    /\ apiKey = TRUE
    /\ fs = [exists |-> FALSE, files |-> <<>>]
    /\ disk = [state |-> "absent", docs |-> <<>>]
    /\ embed \in [QueryTexts \cup ContentsOf(LongChunks) -> EmbedValues]
    /\ pyhash = [c \in ContentsOf(LongChunks) |-> 0]
    /\ vectorstore \in {Store(d) : d \in SeqsOf(LongChunks, 1, MaxAnswerIndexLen)}
    /\ calls = <<>>
    /\ result = NoResult
    /\ indexed = <<>>
    /\ NoFrontEnd

NextAnswer ==
    \/ HandleQuery
    \/ Discard

SpecAnswer == InitAnswer /\ [][NextAnswer]_vars

\* handle_query was called on a loaded index and returned.
AnswerResult ==
    vectorstore.loaded /\ result.op = "handle_query" /\ ~result.raised

\* What handle_query retrieved: the chunks of its one search.
Retrieved == calls[1].docs

\* C9 as stated: the answer is the generated one; with return_sources there
\* is one source per retrieved chunk, at most 5, in retrieval order, whose
\* preview is the first 200 characters of the chunk's content and whose file
\* and type are the chunk's metadata; without return_sources there is none.
C9_PreviewIsFirst200 ==
    AnswerResult =>
        /\ result.ret.answer = calls[2].out
        /\ calls[1].k = RetrieverK
        /\ Len(Retrieved) <= RetrieverK
        /\ ~result.args.return_sources => result.ret.sources = <<>>
        /\ result.args.return_sources =>
              /\ Len(result.ret.sources) = Len(Retrieved)
              /\ \A i \in 1..Len(Retrieved) :
                    LET src == result.ret.sources[i]
                        doc == Retrieved[i]
                    IN  /\ src.content_preview = Take(doc.page_content, PreviewLen)
                        /\ "source_file" \in DOMAIN doc.metadata =>
                              src.file = doc.metadata.source_file
                        /\ "file_type" \in DOMAIN doc.metadata =>
                              src.type = doc.metadata.file_type

\* C9, amended: as above, but the preview is the first 200 characters of the
\* chunk's content followed by "...", and file and type are "unknown" for a
\* chunk without that metadata.
C9_PreviewWithEllipsis ==
    AnswerResult =>
        /\ Len(calls) = 2
        /\ calls[1].service = "search" /\ calls[1].query = result.args.query
        /\ calls[2].service = "llm" /\ calls[2].docs = Retrieved
        /\ result.ret.answer = calls[2].out
        /\ calls[1].k = RetrieverK
        /\ Len(Retrieved) = Min(RetrieverK, Len(vectorstore.docs))
        /\ ~result.args.return_sources => result.ret.sources = <<>>
        /\ result.args.return_sources =>
              /\ Len(result.ret.sources) = Len(Retrieved)
              /\ \A i \in 1..Len(Retrieved) :
                    LET src == result.ret.sources[i]
                        doc == Retrieved[i]
                    IN  /\ Len(src.content_preview) = Min(Len(doc.page_content), PreviewLen) + 3
                        /\ \A n \in 1..Len(src.content_preview) :
                              src.content_preview[n] =
                                 IF n <= Len(src.content_preview) - 3
                                 THEN doc.page_content[n]
                                 ELSE "."
                        /\ src.file = IF "source_file" \in DOMAIN doc.metadata
                                      THEN doc.metadata.source_file ELSE Unknown
                        /\ src.type = IF "file_type" \in DOMAIN doc.metadata
                                      THEN doc.metadata.file_type ELSE Unknown

\* Sources were asked for from an index of more than 5 chunks, and a chunk
\* longer than a preview is among the 5 retrieved.
C9_Witness ==
    /\ AnswerResult
    /\ result.args.return_sources
    /\ Len(vectorstore.docs) > RetrieverK
    /\ Len(result.ret.sources) = RetrieverK
    /\ \E i \in 1..Len(Retrieved) : Len(Retrieved[i].page_content) > PreviewLen
    /\ \E i \in 1..Len(Retrieved) : Retrieved[i].metadata = NoMeta

-----------------------------------------------------------------------------
(* DocumentLoader *)

UpperCase == <<"A", "B", "C", "D", "E", "F", "G", "H", "I", "J", "K", "L", "M",
               "N", "O", "P", "Q", "R", "S", "T", "U", "V", "W", "X", "Y", "Z">>

LowerCase == <<"a", "b", "c", "d", "e", "f", "g", "h", "i", "j", "k", "l", "m",
               "n", "o", "p", "q", "r", "s", "t", "u", "v", "w", "x", "y", "z">>

\* str.lower()
Lower(s) ==
    [i \in 1..Len(s) |->
        IF \E n \in 1..26 : UpperCase[n] = s[i]
        THEN LowerCase[CHOOSE n \in 1..26 : UpperCase[n] = s[i]]
        ELSE s[i]]

\* os.path.splitext(name)[1]: from the last dot on, unless only dots precede it.
SplitExt(name) ==
    LET dots == {i \in 1..Len(name) : name[i] = "."}
        last == CHOOSE i \in dots : \A j \in dots : j <= i
    IN  IF dots = {} \/ (\A j \in 1..(last - 1) : name[j] = ".")
        THEN <<>>
        ELSE SubSeq(name, last, Len(name))

\* os.path.join(root, file)
PathJoin(root, file) == root \o <<"/">> \o file

\* The keys of DocumentLoader.supported_extensions.
supported_extensions ==
    {<<".", "t", "x", "t">>, <<".", "p", "d", "f">>, <<".", "x", "l", "s", "x">>,
     <<".", "x", "l", "s">>, <<".", "d", "o", "c", "x">>, <<".", "d", "o", "c">>,
     <<".", "c", "s", "v">>}

\* DocumentLoader._load_single_file: the format's loader parses the file.  What
\* it does with a file is a property of the file: it raises (f.fails), or it
\* returns one Document per text of f.texts (a page, a row, the whole file),
\* each with the loader's own metadata.
load_single_file(f, file_path) ==
    IF f.fails
    THEN Raised(<<>>)
    ELSE Returned([j \in 1..Len(f.texts) |->
                      Doc(f.texts[j], [source |-> file_path])], <<>>)

\* The assignments to doc.metadata with the path given as source_file.
TaggedWithPath(doc, file, file_path, file_ext) ==
    Doc(doc.page_content, FileMeta(file_path, file_path, file_ext) @@ doc.metadata)

\* The three assignments to doc.metadata.
Tagged(doc, file, file_path, file_ext) ==
    Doc(doc.page_content, FileMeta(file, file_path, file_ext) @@ doc.metadata)

\* The body of the loop over the files, for one file, without the try: a
\* failing parser ends the load.
load_file_untried(f, all_documents) ==
    LET file_path == PathJoin(f.root, f.name)
        file_ext  == Lower(SplitExt(f.name))
    IN  IF file_ext \in supported_extensions
        THEN LET loaded == load_single_file(f, file_path)
             IN  IF loaded.raised
                 THEN Raised(<<>>)
                 ELSE Returned(all_documents \o
                         [j \in 1..Len(loaded.ret) |->
                             Tagged(loaded.ret[j], f.name, file_path, file_ext)], <<>>)
        ELSE Returned(all_documents, <<>>)

\* The body of the loop over the files, for one file.
load_file(f, all_documents) ==
    LET file_path == PathJoin(f.root, f.name)
        file_ext  == Lower(SplitExt(f.name))
    IN  IF file_ext \in supported_extensions
        THEN LET loaded == load_single_file(f, file_path)
             IN  IF loaded.raised
                 THEN Returned(all_documents, <<>>)
                 ELSE Returned(all_documents \o
                         [j \in 1..Len(loaded.ret) |->
                             Tagged(loaded.ret[j], f.name, file_path, file_ext)], <<>>)
        ELSE Returned(all_documents, <<>>)

\* The loop of load_all_documents over os.walk, from the i-th file on.
RECURSIVE WalkFrom(_, _, _)
WalkFrom(files, i, all_documents) ==
    IF i > Len(files)
    THEN Returned(all_documents, <<>>)
    ELSE LET step == load_file(files[i], all_documents)
         IN  IF step.raised
             THEN step
             ELSE WalkFrom(files, i + 1, step.ret)

\* DocumentLoader.load_all_documents() and load_quality_documents(data_folder)
load_all_documents(folder) ==
    IF ~folder.exists
    THEN Returned(<<>>, <<>>)
    ELSE WalkFrom(folder.files, 1, <<>>)

-----------------------------------------------------------------------------
(* The loader on its own, over every small data folder. *)

\* the most files in the data folder
MaxFiles == 2

\* File names: a supported extension, one in upper case, an unsupported one,
\* a name that is only an extension, and no extension.
SampleNames ==
    {<<"a", ".", "t", "x", "t">>, <<"b", ".", "C", "S", "V">>,
     <<"c", ".", "m", "d">>, <<".", "p", "d", "f">>, <<"d">>}

SampleRoots == {<<"d", "a", "t", "a">>}

\* What a file parses to: nothing, one Document, two Documents.
SampleTexts == {<<>>, <<<<"x">>>>, <<<<"x">>, <<"y">>>>}

SampleFiles ==
    {[root |-> r, name |-> n, fails |-> b, texts |-> t] :
        r \in SampleRoots, n \in SampleNames, b \in BOOLEAN, t \in SampleTexts}

MissingFolder == [exists |-> FALSE, files |-> <<>>]

\* The folders of at most n files, no path twice.
Folders(n) ==
    {[exists |-> TRUE, files |-> fl] :
        fl \in {s \in SeqsOf(SampleFiles, 0, n) :
                   \A i, j \in 1..Len(s) :
                       PathJoin(s[i].root, s[i].name) = PathJoin(s[j].root, s[j].name)
                           => i = j}}

InitLoader ==
    /\ apiKey = TRUE
    /\ fs \in {MissingFolder} \cup Folders(MaxFiles)
    /\ disk = [state |-> "absent", docs |-> <<>>]
    /\ embed = <<>>
    /\ pyhash = <<>>
    /\ vectorstore = None
    /\ calls = <<>>
    /\ result = NoResult
    /\ indexed = <<>>
    /\ NoFrontEnd

LoadAllDocuments ==
    /\ Ready
    /\ Called("load_all_documents", [data_folder |-> "data"], load_all_documents(fs))

NextLoader ==
    \/ LoadAllDocuments
    \/ Discard

SpecLoader == InitLoader /\ [][NextLoader]_vars

(* Claims about the loader *)

LoadResult == result.op = "load_all_documents"

\* The file at position i of the walk has a supported extension and parses.
Parses(i) ==
    /\ Lower(SplitExt(fs.files[i].name)) \in supported_extensions
    /\ ~fs.files[i].fails

\* The number of Documents the files before position i contribute.
RECURSIVE Offset(_)
Offset(i) ==
    IF i <= 1
    THEN 0
    ELSE Offset(i - 1) + (IF Parses(i - 1) THEN Len(fs.files[i - 1].texts) ELSE 0)

\* C5: load_all_documents never raises; its result is, in walk order, the
\* Documents of the files that have a supported extension and parse, and of no
\* other file; a missing folder, an empty folder or a folder in which every
\* file fails gives the empty list.
C5_BestEffortLoad ==
    LoadResult =>
        /\ ~result.raised
        /\ ~fs.exists => result.ret = <<>>
        /\ Len(result.ret) = Offset(Len(fs.files) + 1)
        /\ \A i \in 1..Len(fs.files) :
              Parses(i) =>
                  \A j \in 1..Len(fs.files[i].texts) :
                      result.ret[Offset(i) + j].page_content = fs.files[i].texts[j]
        /\ (\A i \in 1..Len(fs.files) : ~Parses(i)) => result.ret = <<>>

\* A file whose parser raises stands before one that parses, beside an
\* unsupported one, and the Documents of the one that parses are returned.
C5_Witness ==
    /\ LoadResult
    /\ Len(fs.files) = 2
    /\ fs.files[1].fails
    /\ Lower(SplitExt(fs.files[1].name)) \in supported_extensions
    /\ Parses(2)
    /\ Len(result.ret) = 2

\* The position in the walk of the file the n-th returned Document came from.
FileOf(n) ==
    CHOOSE i \in 1..Len(fs.files) :
        Parses(i) /\ Offset(i) < n /\ n <= Offset(i) + Len(fs.files[i].texts)

\* C6 as stated: every file with a supported extension yields at least one
\* returned Document, and every returned Document carries the name, the path
\* and the extension of the file it came from.
C6_EveryFileYieldsADocument ==
    LoadResult =>
        /\ \A i \in 1..Len(fs.files) :
              Lower(SplitExt(fs.files[i].name)) \in supported_extensions
              => \E n \in 1..Len(result.ret) :
                     result.ret[n].metadata.source_path =
                         PathJoin(fs.files[i].root, fs.files[i].name)
        /\ \A n \in 1..Len(result.ret) :
              LET f == fs.files[FileOf(n)]
                  m == result.ret[n].metadata
              IN  /\ m.source_file = f.name
                  /\ m.source_path = PathJoin(f.root, f.name)
                  /\ m.file_type = SplitExt(f.name)

\* C6, amended: every returned Document carries the name and the path of the
\* file it came from and that file's extension in lower case; a file with a
\* supported extension yields one returned Document per Document its parser
\* returns, which may be none, and none when its parser raises.
C6_MetadataOfSourceFile ==
    LoadResult =>
        /\ \A n \in 1..Len(result.ret) :
              LET f == fs.files[FileOf(n)]
                  m == result.ret[n].metadata
              IN  /\ m.source_file = f.name
                  /\ m.source_path = PathJoin(f.root, f.name)
                  /\ m.file_type = Lower(SplitExt(f.name))
                  /\ m.file_type \in supported_extensions
        /\ \A i \in 1..Len(fs.files) :
              Cardinality({n \in 1..Len(result.ret) :
                              result.ret[n].metadata.source_path =
                                  PathJoin(fs.files[i].root, fs.files[i].name)})
                 = IF Parses(i) THEN Len(fs.files[i].texts) ELSE 0

\* A file with an upper-case extension yielded two Documents.
C6_Witness ==
    /\ LoadResult
    /\ \E n \in 1..Len(result.ret) :
          /\ SplitExt(result.ret[n].metadata.source_file) # result.ret[n].metadata.file_type
          /\ \E k \in 1..Len(result.ret) :
                /\ k # n
                /\ result.ret[k].metadata.source_path = result.ret[n].metadata.source_path

-----------------------------------------------------------------------------
(* The vector store builder (vectorstore/build_vectorstore.py) and the      *)
(* index directory.  disk.state is "absent" when nothing is at the index    *)
(* path, "index" when a saved index is there, and "unreadable" when what is *)
(* there cannot be loaded (damaged, or written in an incompatible format);  *)
(* disk.docs are the chunks that were saved.                                *)

\* chunk_size and chunk_overlap of the text splitter
ChunkSize == 1000

ChunkOverlap == 200

\* Windows that begin where the one before ends.
RECURSIVE WindowsWithoutOverlap(_, _)
WindowsWithoutOverlap(text, start) ==
    IF start + ChunkSize >= Len(text)
    THEN <<SubSeq(text, start + 1, Len(text))>>
    ELSE <<SubSeq(text, start + 1, start + ChunkSize)>>
         \o WindowsWithoutOverlap(text, start + ChunkSize)

\* The chunks of a text that is split character by character, from the
\* character after `start` on: windows of
\* ChunkSize characters, each beginning ChunkOverlap characters before the
\* end of the one before, the last one ending with the text.
RECURSIVE WindowsFrom(_, _)
WindowsFrom(text, start) ==
    IF start + ChunkSize >= Len(text)
    THEN <<SubSeq(text, start + 1, Len(text))>>
    ELSE <<SubSeq(text, start + 1, start + ChunkSize)>>
         \o WindowsFrom(text, start + ChunkSize - ChunkOverlap)

\* No strip.
Unstripped(s) == s

\* str.strip(), for blanks
RECURSIVE Strip(_)
Strip(s) ==
    IF s = <<>>
    THEN s
    ELSE IF Head(s) = " "
         THEN Strip(Tail(s))
         ELSE IF s[Len(s)] = " "
              THEN Strip(SubSeq(s, 1, Len(s) - 1))
              ELSE s

\* The pieces the splitter cuts a text into at its blanks, each blank kept at
\* the head of the piece it begins; no piece is empty.
Pieces(text) ==
    LET cuts  == {i \in 2..Len(text) : text[i] = " "}
        begin == [n \in 1..(Cardinality(cuts) + 1) |->
                     IF n = 1
                     THEN 1
                     ELSE CHOOSE i \in cuts :
                              Cardinality({j \in cuts : j < i}) = n - 2]
    IN  [n \in 1..(Cardinality(cuts) + 1) |->
            SubSeq(text, begin[n],
                   IF n = Cardinality(cuts) + 1 THEN Len(text) ELSE begin[n + 1] - 1)]

\* "".join(current), stripped; an empty one is no chunk.
RECURSIVE Joined(_)
Joined(current) ==
    IF current = <<>> THEN <<>> ELSE Head(current) \o Joined(Tail(current))

JoinDocs(current) ==
    IF Strip(Joined(current)) = <<>> THEN <<>> ELSE <<Strip(Joined(current))>>

\* The pieces of a chunk that are kept as the head of the next one: pieces are
\* dropped from the front until at most ChunkOverlap characters are left and
\* the next piece, of length n, fits.
RECURSIVE KeptForOverlap(_, _)
KeptForOverlap(current, n) ==
    IF current # <<>>
       /\ (Len(Joined(current)) > ChunkOverlap
           \/ Len(Joined(current)) + n > ChunkSize)
    THEN KeptForOverlap(Tail(current), n)
    ELSE current

\* _merge_splits: the pieces from the i-th on are gathered into chunks of at
\* most ChunkSize characters.
RECURSIVE MergeSplitsFrom(_, _, _, _)
MergeSplitsFrom(splits, i, current, docs) ==
    IF i > Len(splits)
    THEN docs \o JoinDocs(current)
    ELSE IF current # <<>> /\ Len(Joined(current)) + Len(splits[i]) > ChunkSize
         THEN MergeSplitsFrom(splits, i + 1,
                              Append(KeptForOverlap(current, Len(splits[i])), splits[i]),
                              docs \o JoinDocs(current))
         ELSE MergeSplitsFrom(splits, i + 1, Append(current, splits[i]), docs)

merge_splits(splits) == MergeSplitsFrom(splits, 1, <<>>, <<>>)

\* The chunks of a text that is split character by character, each stripped.
CharacterChunks(text) ==
    LET windows == WindowsFrom(text, 0)
    IN  SelectSeq([j \in 1..Len(windows) |-> Strip(windows[j])],
                  LAMBDA w : w # <<>>)

\* The loop of _split_text over the pieces: the pieces shorter than ChunkSize
\* are gathered and merged, a longer one is split character by character.
RECURSIVE SplitPiecesFrom(_, _, _, _)
SplitPiecesFrom(splits, i, good_splits, final_chunks) ==
    IF i > Len(splits)
    THEN final_chunks \o merge_splits(good_splits)
    ELSE IF Len(splits[i]) < ChunkSize
         THEN SplitPiecesFrom(splits, i + 1, Append(good_splits, splits[i]), final_chunks)
         ELSE SplitPiecesFrom(splits, i + 1, <<>>,
                              final_chunks \o merge_splits(good_splits)
                                           \o CharacterChunks(splits[i]))

\* text_splitter.split_text(text), for a text of letters and blanks: a text
\* with a blank is cut at its blanks, one without is split character by
\* character; an empty text has no chunk.
split_text(text) ==
    IF text = <<>>
    THEN <<>>
    ELSE IF \E i \in 1..Len(text) : text[i] = " "
         THEN SplitPiecesFrom(Pieces(text), 1, <<>>, <<>>)
         ELSE WindowsFrom(text, 0)

\* text_splitter.split_documents(documents): the chunks of each document, in
\* order, each with the metadata of its document.
RECURSIVE split_documents(_)
split_documents(documents) ==
    IF documents = <<>>
    THEN <<>>
    ELSE LET chunks == split_text(documents[1].page_content)
         IN  [j \in 1..Len(chunks) |-> Doc(chunks[j], documents[1].metadata)]
             \o split_documents(Tail(documents))

SplitCall(documents) ==
    Call("text_splitter.split_documents", <<>>, 0, documents, TRUE)

EmbedCall(split_docs, ok) ==
    Call("embeddings.embed_documents", <<>>, 0, split_docs, ok)

\* What an operation of the builder did: what it returned or raised, the
\* calls it made, and the index directory and its history afterwards.
Wrote(r, d, ix) ==
    [raised |-> r.raised, ret |-> r.ret, calls |-> r.calls, disk |-> d, indexed |-> ix]

\* FAISS.from_documents(split_docs, embeddings): embeds the chunks; fails when
\* the embedding call fails and when there is no chunk.
from_documents(split_docs, svc, cs) ==
    IF svc # "ok"
    THEN Raised(cs \o <<EmbedCall(split_docs, FALSE)>>)
    ELSE IF split_docs = <<>>
         THEN Raised(cs \o <<EmbedCall(split_docs, TRUE)>>)
         ELSE Returned(Store(split_docs), cs \o <<EmbedCall(split_docs, TRUE)>>)

\* build_vectorstore without the check of its argument.
build_vectorstore_unvalidated(documents, svc) ==
    from_documents(split_documents(documents), svc, <<SplitCall(documents)>>)

\* VectorStoreBuilder.build_vectorstore(documents)
build_vectorstore(documents, svc) ==
    IF documents = <<>>
    THEN Raised(<<>>)
    ELSE from_documents(split_documents(documents), svc, <<SplitCall(documents)>>)

\* VectorStoreBuilder.save_vectorstore(vectorstore): vectorstore.save_local
save_vectorstore(vs) == [state |-> "index", docs |-> vs.docs]

\* load_vectorstore without the try around FAISS.load_local.
load_vectorstore_untried(d) ==
    IF d.state = "absent"
    THEN Returned(None, <<>>)
    ELSE IF d.state = "index"
         THEN Returned(Store(d.docs), <<>>)
         ELSE Raised(<<>>)

\* VectorStoreBuilder.load_vectorstore()
load_vectorstore(d) ==
    IF d.state = "absent"
    THEN Returned(None, <<>>)
    ELSE IF d.state = "index"
         THEN Returned(Store(d.docs), <<>>)
         ELSE Returned(None, <<>>)

\* vectorstore.add_documents(split_docs): the chunks are added behind the ones
\* the index holds.
add_documents(docs, split_docs) == docs \o split_docs

\* VectorStoreBuilder.update_vectorstore(new_documents).  With no chunk to
\* add, add_documents fails or adds nothing (addsNothing), depending on the
\* FAISS build.
update_vectorstore(d, ix, new_documents, svc, addsNothing) ==
    LET loaded == load_vectorstore(d).ret
    IN  IF ~loaded.loaded
        THEN LET built == build_vectorstore(new_documents, svc)
             IN  IF built.raised
                 THEN Wrote(built, d, ix)
                 ELSE Wrote(Returned(<<>>, built.calls),
                            save_vectorstore(built.ret), <<new_documents>>)
        ELSE LET split_docs == split_documents(new_documents)
                 cs         == <<SplitCall(new_documents)>>
             IN  IF svc # "ok"
                 THEN Wrote(Raised(cs \o <<EmbedCall(split_docs, FALSE)>>), d, ix)
                 ELSE IF split_docs = <<>> /\ ~addsNothing
                      THEN Wrote(Raised(cs \o <<EmbedCall(split_docs, TRUE)>>), d, ix)
                      ELSE Wrote(Returned(<<>>, cs \o <<EmbedCall(split_docs, TRUE)>>),
                                 save_vectorstore(
                                     Store(add_documents(loaded.docs, split_docs))),
                                 Append(ix, new_documents))

\* The end of build_vectorstore_from_folder: the index that was built from
\* `documents` is saved; nothing is written when the build raised.
SavedWhenBuilt(built, documents, d, ix) ==
    IF built.raised
    THEN Wrote(built, d, ix)
    ELSE Wrote(built, save_vectorstore(built.ret), <<documents>>)

\* build_vectorstore_from_folder once the loader returned `documents`.
FromDocuments(documents, d, ix, key, svc) ==
    IF documents = <<>>
    THEN Wrote(Raised(<<>>), d, ix)
    ELSE IF ~key
         THEN Wrote(Raised(<<>>), d, ix)
         ELSE SavedWhenBuilt(build_vectorstore(documents, svc), documents, d, ix)

\* build_vectorstore_from_folder(data_folder, index_path): the loader runs
\* first; the builder is constructed, which needs the API key, only when the
\* loader returned a document.
build_vectorstore_from_folder(folder, d, ix, key, svc) ==
    FromDocuments(load_all_documents(folder).ret, d, ix, key, svc)

\* RAGQueryHandler._load_vectorstore()
handler_load_vectorstore(d) ==
    IF d.state = "index" THEN Store(d.docs) ELSE None

\* RAGQueryHandler(index_path): the two OpenAI clients are constructed, which
\* needs the API key, then the index is loaded.
RAGQueryHandler(d, key) ==
    IF ~key
    THEN Raised(<<>>)
    ELSE Returned(handler_load_vectorstore(d), <<>>)

-----------------------------------------------------------------------------
(* The builder and the handler's constructor over one index directory. *)

\* the most documents passed to one build or update
MaxNewDocs == 1

\* the most document lists that go into one index
MaxUpdates == 2

\* Documents: an empty one, and one a character longer than a chunk.
StoreDocs ==
    {Doc(<<>>, FileMeta("e.txt", "data/e.txt", ".txt")),
     Doc(Rep("a", ChunkSize + 1), FileMeta("l.txt", "data/l.txt", ".txt"))}

\* Data folders: none, an empty one, one file that parses, one file whose
\* parser raises.
StoreFolders ==
    {MissingFolder,
     [exists |-> TRUE, files |-> <<>>],
     [exists |-> TRUE,
      files |-> <<[root |-> <<"d", "a", "t", "a">>, name |-> <<"a", ".", "t", "x", "t">>,
                   fails |-> FALSE, texts |-> <<<<"x">>>>]>>],
     [exists |-> TRUE,
      files |-> <<[root |-> <<"d", "a", "t", "a">>, name |-> <<"a", ".", "t", "x", "t">>,
                   fails |-> TRUE, texts |-> <<>>]>>]}

InitStore ==
    /\ apiKey \in BOOLEAN
    /\ fs \in StoreFolders
    /\ disk \in {[state |-> "absent", docs |-> <<>>],
                 [state |-> "unreadable", docs |-> <<>>]}
    /\ embed = <<>>
    /\ pyhash = <<>>
    /\ vectorstore = None
    /\ calls = <<>>
    /\ result = NoResult
    /\ indexed = <<>>
    /\ NoFrontEnd

\* An operation that can write the index directory was called, and `r` is
\* what it did; the result keeps the directory as it was before the call.
StoreCalled(op, args, r) ==
    /\ result' = [op |-> op, args |-> args, raised |-> r.raised, ret |-> r.ret,
                  before |-> disk]
    /\ calls' = r.calls
    /\ disk' = r.disk
    /\ indexed' = r.indexed
    /\ UNCHANGED <<apiKey, fs, embed, pyhash, vectorstore, entry, pc, session, shown>>

\* builder.build_vectorstore(documents), on a builder that was constructed
BuildVectorstore ==
    /\ Ready
    /\ apiKey
    /\ \E documents \in SeqsOf(StoreDocs, 0, MaxNewDocs), svc \in {"ok", "embedding_error"} :
          StoreCalled("build_vectorstore", [documents |-> documents],
                      Wrote(build_vectorstore(documents, svc), disk, indexed))

\* builder.save_vectorstore(vectorstore) of the vector store just built
SaveVectorstore ==
    /\ result.op = "build_vectorstore"
    /\ ~result.raised
    /\ StoreCalled("save_vectorstore", [vectorstore |-> result.ret],
                   Wrote(Returned(<<>>, <<>>), save_vectorstore(result.ret),
                         <<result.args.documents>>))

\* builder.load_vectorstore()
LoadVectorstore ==
    /\ Ready
    /\ apiKey
    /\ StoreCalled("load_vectorstore", <<>>, Wrote(load_vectorstore(disk), disk, indexed))

\* builder.update_vectorstore(new_documents)
UpdateVectorstore ==
    /\ Ready
    /\ apiKey
    /\ Len(indexed) < MaxUpdates
    /\ \E new_documents \in SeqsOf(StoreDocs, 0, MaxNewDocs),
          svc \in {"ok", "embedding_error"}, addsNothing \in BOOLEAN :
          StoreCalled("update_vectorstore", [new_documents |-> new_documents],
                      update_vectorstore(disk, indexed, new_documents, svc, addsNothing))

BuildVectorstoreFromFolder ==
    /\ Ready
    /\ \E svc \in {"ok", "embedding_error"} :
          StoreCalled("build_vectorstore_from_folder", [data_folder |-> "data"],
                      build_vectorstore_from_folder(fs, disk, indexed, apiKey, svc))

\* handler = RAGQueryHandler(index_path)
NewQueryHandler ==
    /\ Ready
    /\ LET r == RAGQueryHandler(disk, apiKey)
       IN  /\ result' = [op |-> "RAGQueryHandler", args |-> <<>>, raised |-> r.raised,
                         ret |-> <<>>, before |-> disk]
           /\ vectorstore' = IF r.raised THEN vectorstore ELSE r.ret
           /\ calls' = r.calls
    /\ UNCHANGED <<apiKey, fs, disk, embed, pyhash, indexed, entry, pc, session, shown>>

\* shutil.rmtree(index_path)
RemoveIndex ==
    /\ Ready
    /\ disk.state # "absent"
    /\ disk' = [state |-> "absent", docs |-> <<>>]
    /\ indexed' = <<>>
    /\ UNCHANGED <<apiKey, fs, embed, pyhash, vectorstore, calls, result,
                   entry, pc, session, shown>>

\* The saved index becomes unreadable: its files are damaged, or the library
\* that wrote them is replaced by one that cannot read them.
IndexDamaged ==
    /\ Ready
    /\ disk.state = "index"
    /\ disk' = [disk EXCEPT !.state = "unreadable"]
    /\ UNCHANGED <<apiKey, fs, embed, pyhash, vectorstore, calls, result, indexed,
                   entry, pc, session, shown>>

NextStore ==
    \/ BuildVectorstore
    \/ SaveVectorstore
    \/ LoadVectorstore
    \/ UpdateVectorstore
    \/ BuildVectorstoreFromFolder
    \/ NewQueryHandler
    \/ RemoveIndex
    \/ IndexDamaged
    \/ Discard

SpecStore == InitStore /\ [][NextStore]_vars

(* Claims about the builder *)

\* C4: build_vectorstore([]) raises before any chunking or embedding call,
\* build_vectorstore_from_folder raises when the loader returns no document,
\* and neither writes anything to the index path.
C4_EmptyBuildRaises ==
    /\ (result.op = "build_vectorstore" /\ result.args.documents = <<>>)
           => /\ result.raised
              /\ calls = <<>>
              /\ disk = result.before
    /\ (result.op = "build_vectorstore_from_folder" /\ load_all_documents(fs).ret = <<>>)
           => /\ result.raised
              /\ calls = <<>>
              /\ disk = result.before

\* build_vectorstore([]) raised while a saved index was at the index path.
C4_Witness ==
    /\ result.op = "build_vectorstore"
    /\ result.args.documents = <<>>
    /\ result.raised
    /\ disk.state = "index"

\* The chunks of the document lists in ix, in order.
RECURSIVE ChunksOfAll(_)
ChunksOfAll(ix) ==
    IF ix = <<>> THEN <<>> ELSE split_documents(ix[1]) \o ChunksOfAll(Tail(ix))

UpdateResult == result.op = "update_vectorstore"

\* C7: when no index exists at the path update_vectorstore builds and saves;
\* otherwise the index saved afterwards holds every chunk of the previously
\* saved index followed by every chunk of new_documents, with no
\* deduplication.
C7_NaiveAppend ==
    (UpdateResult /\ ~result.raised) =>
        /\ disk.state = "index"
        /\ disk.docs = IF result.before.state = "absent"
                       THEN split_documents(result.args.new_documents)
                       ELSE result.before.docs
                            \o split_documents(result.args.new_documents)

\* What update_vectorstore does: when the index at the path loads, the index
\* saved afterwards holds every chunk of the previously saved index followed
\* by every chunk of new_documents; when none loads, because nothing is there
\* or because what is there is unreadable, the index built from new_documents
\* alone is saved in place of whatever was there; an update that raises leaves
\* the index path as it was.  A saved index holds each document's chunks once
\* per time the document went into it since it was last built.
UpdateAppendsOrRebuilds ==
    /\ UpdateResult =>
          IF result.raised
          THEN disk = result.before
          ELSE /\ disk.state = "index"
               /\ disk.docs = IF result.before.state = "index"
                              THEN result.before.docs
                                   \o split_documents(result.args.new_documents)
                              ELSE split_documents(result.args.new_documents)
    /\ (UpdateResult /\ result.before.state # "index"
                     /\ split_documents(result.args.new_documents) = <<>>)
          => result.raised
    /\ disk.state # "absent" => disk.docs = ChunksOfAll(indexed)

\* C8 as stated: load_vectorstore returns a null result without raising when
\* nothing is at the index path or the index is unreadable, and the saved
\* index otherwise; the constructor of RAGQueryHandler never raises on a
\* missing or unreadable index and leaves vectorstore as None; neither load
\* changes the index path.
C8_LoadFailsSoftly ==
    /\ result.op = "load_vectorstore" =>
          /\ ~result.raised
          /\ disk = result.before
          /\ result.ret = IF disk.state = "index" THEN Store(disk.docs) ELSE None
    /\ result.op = "RAGQueryHandler" =>
          /\ disk = result.before
          /\ disk.state # "index" => (~result.raised /\ vectorstore = None)

\* C8, amended: as stated for load_vectorstore; the constructor of
\* RAGQueryHandler, when the API key is set, never raises on a missing or
\* unreadable index and leaves vectorstore as None, and holds the saved index
\* otherwise; without the API key it raises whatever is at the index path;
\* neither load changes the index path.
C8_LoadFailsSoftlyWithKey ==
    /\ result.op = "load_vectorstore" =>
          /\ ~result.raised
          /\ disk = result.before
          /\ result.ret = IF disk.state = "index" THEN Store(disk.docs) ELSE None
    /\ result.op = "RAGQueryHandler" =>
          /\ disk = result.before
          /\ IF apiKey
             THEN /\ ~result.raised
                  /\ vectorstore = IF disk.state = "index" THEN Store(disk.docs) ELSE None
             ELSE result.raised

\* A handler was constructed over an index that had been saved and became
\* unreadable, and holds no vector store.
C8_Witness ==
    /\ result.op = "RAGQueryHandler"
    /\ disk.state = "unreadable"
    /\ disk.docs # <<>>
    /\ ~result.raised
    /\ vectorstore = None

-----------------------------------------------------------------------------
(* The front ends: the console menu (main.py), the web app (app.py) and the *)
(* demo script (demo.py).  `entry` is the one that was started.  The console *)
(* and the demo keep their handler's vector store in `vectorstore`; the web  *)
(* app keeps its handler in session.handler.  `result` and `calls` are those *)
(* of the handler method the last action called, `shown` is what the front   *)
(* end displayed for it.  pc is "start" before the entry point has run,      *)
(* "aborted" after sys.exit(1), "crashed" after an exception nothing caught, *)
(* "exited" after the menu's choice 5 and "done" at the end of the demo.     *)

\* A method of st.session_state.handler is called: on None the attribute
\* lookup raises.
OnHandler(h, r) == IF h.exists THEN r ELSE Raised(<<>>)

Absent == [state |-> "absent", docs |-> <<>>]

\* The end of main.initialize_system: sys.exit(1) when
\* build_vectorstore_from_folder raised.
ExitedWhenRaised(built) ==
    [exited |-> built.raised, disk |-> built.disk, indexed |-> built.indexed]

\* initialize_system that keeps the index it is asked to rebuild.
console_initialize_system_kept(folder, d, ix, key, force_rebuild, svc) ==
    IF d.state # "absent"
    THEN [exited |-> FALSE, disk |-> d, indexed |-> ix]
    ELSE IF ~folder.exists
         THEN [exited |-> TRUE, disk |-> d, indexed |-> ix]
         ELSE ExitedWhenRaised(build_vectorstore_from_folder(folder, d, ix, key, svc))

\* main.initialize_system(data_folder, force_rebuild): `exited` when it ends
\* the process with sys.exit(1).
console_initialize_system(folder, d, ix, key, force_rebuild, svc) ==
    LET removed == force_rebuild /\ d.state # "absent"
        d1      == IF removed THEN Absent ELSE d
        ix1     == IF removed THEN <<>> ELSE ix
    IN  IF d1.state # "absent"
        THEN [exited |-> FALSE, disk |-> d1, indexed |-> ix1]
        ELSE IF ~folder.exists
             THEN [exited |-> TRUE, disk |-> d1, indexed |-> ix1]
             ELSE ExitedWhenRaised(
                      build_vectorstore_from_folder(folder, d1, ix1, key, svc))

\* initialize_system that takes the index for built when its handler could
\* not be constructed.
web_initialize_system_unguarded(s, d, key) ==
    IF d.state # "absent" /\ ~s.initialized
    THEN LET h == RAGQueryHandler(d, key)
         IN  IF h.raised
             THEN [session |-> [s EXCEPT !.initialized = TRUE, !.index_built = TRUE],
                   error |-> TRUE]
             ELSE [session |-> [s EXCEPT !.handler = Handler(h.ret),
                                         !.initialized = TRUE,
                                         !.index_built = TRUE],
                   error |-> FALSE]
    ELSE [session |-> s, error |-> FALSE]

\* app.initialize_system(): `error` when st.error was called.
web_initialize_system(s, d, key) ==
    IF d.state # "absent" /\ ~s.initialized
    THEN LET h == RAGQueryHandler(d, key)
         IN  IF h.raised
             THEN [session |-> s, error |-> TRUE]
             ELSE [session |-> [s EXCEPT !.handler = Handler(h.ret),
                                         !.initialized = TRUE,
                                         !.index_built = TRUE],
                   error |-> FALSE]
    ELSE [session |-> s, error |-> FALSE]

\* build_index once build_vectorstore_from_folder ended with `built`: the
\* handler is constructed, the session marked, and the script run again.
IndexBuilt(s, built, key) ==
    IF built.raised
    THEN [session |-> s, disk |-> built.disk, indexed |-> built.indexed,
          error |-> TRUE]
    ELSE LET h == RAGQueryHandler(built.disk, key)
         IN  IF h.raised
             THEN [session |-> s, disk |-> built.disk, indexed |-> built.indexed,
                   error |-> TRUE]
             ELSE [session |-> web_initialize_system(
                                  [s EXCEPT !.handler = Handler(h.ret),
                                            !.initialized = TRUE,
                                            !.index_built = TRUE],
                                  built.disk, key).session,
                   disk |-> built.disk, indexed |-> built.indexed,
                   error |-> FALSE]

\* app.build_index(data_folder); st.rerun() after a build runs the script
\* again, initialize_system included.
build_index(s, folder, d, ix, key, svc) ==
    IndexBuilt(s, build_vectorstore_from_folder(folder, d, ix, key, svc), key)

\* One turn of st.session_state.chat_history
UserTurn(prompt) == [role |-> "user", content |-> prompt]

AssistantTurn(answer, sources) ==
    [role |-> "assistant", content |-> answer, sources |-> sources]

ErrorTurn == [role |-> "assistant", content |-> "error_msg"]

\* chat_interface that shows only the turns of the last prompt.
chat_turns_latest(history, prompt, r) ==
    <<UserTurn(prompt),
      IF r.raised THEN ErrorTurn ELSE AssistantTurn(r.ret.answer, r.ret.sources)>>

\* chat_interface that records nothing for a query that raises.
chat_turns_unanswered(history, prompt, r) ==
    IF r.raised
    THEN history \o <<UserTurn(prompt)>>
    ELSE history \o <<UserTurn(prompt), AssistantTurn(r.ret.answer, r.ret.sources)>>

\* The chat history after chat_interface handled a prompt, `r` being what
\* handle_query did: the user's turn, then the assistant's.
chat_turns(history, prompt, r) ==
    history \o <<UserTurn(prompt),
                 IF r.raised THEN ErrorTurn ELSE AssistantTurn(r.ret.answer, r.ret.sources)>>

-----------------------------------------------------------------------------
(* The three front ends over one data folder and one index directory. *)

\* the most turns of the web chat history
MaxHistory == 4

\* What the user types: nothing, or a query.
AppQueries == {<<>>, <<"q">>}

\* The demo's three sample queries and its search keyword.
sample_queries == <<<<"q">>, <<"w">>, <<"v">>>>

search_query == <<"w">>

\* The answers to the console's confirmation prompt.
ConfirmInputs == {<<"y", "e", "s">>, <<" ", "Y", "e", "s", " ">>, <<"n", "o">>, <<>>}

\* The values of the web app's k inputs that are tried.
WebKs == {1, 5}

\* Data folders: none, one file that parses, one file whose parser raises.
AppFolders ==
    {MissingFolder,
     [exists |-> TRUE,
      files |-> <<[root |-> <<"d", "a", "t", "a">>, name |-> <<"a", ".", "t", "x", "t">>,
                   fails |-> FALSE, texts |-> <<<<"x">>>>]>>],
     [exists |-> TRUE,
      files |-> <<[root |-> <<"d", "a", "t", "a">>, name |-> <<"a", ".", "t", "x", "t">>,
                   fails |-> TRUE, texts |-> <<>>]>>]}

\* The chunk of an index that was saved from an earlier data folder.
OldChunk == Doc(<<"y">>, FileMeta("old.txt", "data/old.txt", ".txt"))

AppTexts == {<<"q">>, <<"w">>, <<"v">>, <<"x">>, <<"y">>}

InitApp ==
    /\ apiKey \in BOOLEAN
    /\ fs \in AppFolders
    /\ disk \in {Absent,
                 [state |-> "index", docs |-> <<OldChunk>>],
                 [state |-> "unreadable", docs |-> <<OldChunk>>]}
    /\ embed = [t \in AppTexts |-> 0]
    /\ pyhash = <<>>
    /\ vectorstore = None
    /\ calls = <<>>
    /\ result = NoResult
    /\ indexed = <<>>
    /\ entry \in {"console", "web", "demo"}
    /\ pc = "start"
    /\ session = [initialized |-> FALSE, handler |-> NoHandler,
                  chat_history |-> <<>>, index_built |-> FALSE]
    /\ shown = "nothing"

\* The front end called a method of the handler, and `r` is what it did.
Queried(op, args, r) ==
    /\ result' = [op |-> op, args |-> args, raised |-> r.raised, ret |-> r.ret]
    /\ calls' = r.calls

NotQueried ==
    /\ result' = NoResult
    /\ calls' = <<>>

\* The front end was asked to rebuild the index; `failed` when the build did
\* not complete.  The result keeps the index directory and the console's
\* handler as they were before.
Rebuilt(args, failed) ==
    /\ result' = [op |-> "rebuild", args |-> args, raised |-> failed, ret |-> <<>>,
                  before |-> [disk |-> disk, vectorstore |-> vectorstore]]
    /\ calls' = <<>>

(* Console *)

\* main(): the API key check, initialize_system(data_folder), and
\* interactive_mode up to its first menu.
ConsoleStart ==
    /\ entry = "console"
    /\ pc = "start"
    /\ NotQueried
    /\ IF ~apiKey
       THEN /\ pc' = "aborted"
            /\ shown' = "error"
            /\ UNCHANGED <<disk, indexed, vectorstore>>
       ELSE \E svc \in {"ok", "embedding_error"} :
               \E init \in {console_initialize_system(fs, disk, indexed, apiKey, FALSE, svc)} :
                   /\ disk' = init.disk
                   /\ indexed' = init.indexed
                   /\ IF init.exited
                      THEN /\ pc' = "aborted"
                           /\ shown' = "error"
                           /\ UNCHANGED vectorstore
                      ELSE /\ pc' = "menu"
                           /\ shown' = "menu"
                           /\ vectorstore' = RAGQueryHandler(init.disk, apiKey).ret
    /\ UNCHANGED <<apiKey, fs, embed, pyhash, entry, session>>

\* What the console does after a call of the handler: nothing catches what
\* the handler raises, and the process ends with the traceback.
ConsoleAfter(r, printed) ==
    /\ pc' = IF r.raised THEN "crashed" ELSE "menu"
    /\ shown' = IF r.raised THEN "traceback" ELSE printed
    /\ UNCHANGED <<apiKey, fs, disk, embed, pyhash, vectorstore, indexed,
                   entry, session>>

ConsoleSkip ==
    /\ NotQueried
    /\ shown' = "menu"
    /\ UNCHANGED <<apiKey, fs, disk, embed, pyhash, vectorstore, indexed,
                   entry, pc, session>>

\* choice 1
ConsoleAsk ==
    /\ entry = "console"
    /\ pc = "menu"
    /\ \E query \in AppQueries, svc \in ServiceOutcomes, a \in Answers :
          IF query = <<>>
          THEN ConsoleSkip
          ELSE LET r == handle_query(vectorstore, query, TRUE, svc, a)
               IN  /\ Queried("handle_query",
                              [query |-> query, return_sources |-> TRUE], r)
                   /\ ConsoleAfter(r, "answer")

\* choice 2: main.search_similar_cases(handler)
ConsoleSearch ==
    /\ entry = "console"
    /\ pc = "menu"
    /\ \E query \in AppQueries, svc \in {"ok", "embedding_error"} :
          IF query = <<>>
          THEN ConsoleSkip
          ELSE LET r == search_similar_cases(vectorstore, query, 5, svc)
               IN  /\ Queried("search_similar_cases", [query |-> query, k |-> 5], r)
                   /\ ConsoleAfter(r, IF r.ret = <<>> THEN "none found" ELSE "results")

\* choice 3: main.show_relevant_documents(handler)
ConsoleDocuments ==
    /\ entry = "console"
    /\ pc = "menu"
    /\ \E query \in AppQueries, svc \in {"ok", "embedding_error"} :
          IF query = <<>>
          THEN ConsoleSkip
          ELSE LET r == get_relevant_documents(vectorstore, query, 3, svc)
               IN  /\ Queried("get_relevant_documents", [query |-> query, k |-> 3], r)
                   /\ ConsoleAfter(r, IF r.ret = <<>> THEN "none found" ELSE "results")

\* choice 4
ConsoleRebuild ==
    /\ entry = "console"
    /\ pc = "menu"
    /\ \E confirm \in ConfirmInputs, svc \in {"ok", "embedding_error"} :
          IF Lower(Strip(confirm)) = <<"y", "e", "s">>
          THEN \E init \in {console_initialize_system(fs, disk, indexed, apiKey, TRUE, svc)} :
                   /\ Rebuilt([confirm |-> confirm], init.exited)
                   /\ disk' = init.disk
                   /\ indexed' = init.indexed
                   /\ IF init.exited
                      THEN /\ pc' = "aborted"
                           /\ shown' = "error"
                           /\ UNCHANGED vectorstore
                      ELSE /\ pc' = "menu"
                           /\ shown' = "menu"
                           /\ vectorstore' = RAGQueryHandler(init.disk, apiKey).ret
          ELSE /\ Rebuilt([confirm |-> confirm], FALSE)
               /\ shown' = "menu"
               /\ UNCHANGED <<disk, indexed, vectorstore, pc>>
    /\ UNCHANGED <<apiKey, fs, embed, pyhash, entry, session>>

\* choice 5
ConsoleQuit ==
    /\ entry = "console"
    /\ pc = "menu"
    /\ NotQueried
    /\ pc' = "exited"
    /\ shown' = "bye"
    /\ UNCHANGED <<apiKey, fs, disk, embed, pyhash, vectorstore, indexed,
                   entry, session>>

\* any other choice
ConsoleInvalid ==
    /\ entry = "console"
    /\ pc = "menu"
    /\ NotQueried
    /\ shown' = "invalid choice"
    /\ UNCHANGED <<apiKey, fs, disk, embed, pyhash, vectorstore, indexed,
                   entry, pc, session>>

(* Demo *)

\* demo.py run as a script: the API key warning, then demo() up to its first
\* sample query.
DemoStart ==
    /\ entry = "demo"
    /\ pc = "start"
    /\ NotQueried
    /\ \E svc \in {"ok", "embedding_error"} :
          \E built \in {IF disk.state = "absent"
                        THEN build_vectorstore_from_folder(fs, disk, indexed, apiKey, svc)
                        ELSE Wrote(Returned(<<>>, <<>>), disk, indexed)} :
          LET h == RAGQueryHandler(built.disk, apiKey)
          IN  /\ disk' = built.disk
              /\ indexed' = built.indexed
              /\ IF built.raised
                 THEN /\ pc' = "done"
                      /\ shown' = "error"
                      /\ UNCHANGED vectorstore
                 ELSE IF h.raised
                      THEN /\ pc' = "crashed"
                           /\ shown' = "traceback"
                           /\ UNCHANGED vectorstore
                      ELSE /\ pc' = "query1"
                           /\ shown' = "initialized"
                           /\ vectorstore' = h.ret
    /\ UNCHANGED <<apiKey, fs, embed, pyhash, entry, session>>

DemoStep == [query1 |-> 1, query2 |-> 2, query3 |-> 3]

\* One turn of the loop over sample_queries.
DemoQuery ==
    /\ entry = "demo"
    /\ pc \in DOMAIN DemoStep
    /\ \E svc \in ServiceOutcomes, a \in Answers :
          LET query == sample_queries[DemoStep[pc]]
              r     == handle_query(vectorstore, query, TRUE, svc, a)
          IN  /\ Queried("handle_query", [query |-> query, return_sources |-> TRUE], r)
              /\ shown' = IF r.raised THEN "error" ELSE "answer"
    /\ pc' = IF pc = "query1" THEN "query2" ELSE IF pc = "query2" THEN "query3" ELSE "search"
    /\ UNCHANGED <<apiKey, fs, disk, embed, pyhash, vectorstore, indexed,
                   entry, session>>

\* The similar-case search that ends the demo.
DemoSearch ==
    /\ entry = "demo"
    /\ pc = "search"
    /\ \E svc \in {"ok", "embedding_error"} :
          LET r == search_similar_cases(vectorstore, search_query, 3, svc)
          IN  /\ Queried("search_similar_cases", [query |-> search_query, k |-> 3], r)
              /\ shown' = IF r.raised THEN "error"
                          ELSE IF r.ret = <<>> THEN "none found" ELSE "results"
    /\ pc' = "done"
    /\ UNCHANGED <<apiKey, fs, disk, embed, pyhash, vectorstore, indexed,
                   entry, session>>

(* Web: each action is one run of the script, for one event of the page. *)

WebRuns == entry = "web"

\* The session after initialize_system() at the top of a run.
Initialized == web_initialize_system(session, disk, apiKey)

\* The page is loaded or reloaded.
WebLoad ==
    /\ WebRuns
    /\ NotQueried
    /\ session' = Initialized.session
    /\ pc' = "page"
    /\ shown' = IF Initialized.error THEN "error" ELSE "page"
    /\ UNCHANGED <<apiKey, fs, disk, embed, pyhash, vectorstore, indexed, entry>>

\* The build button of the sidebar.
WebBuild ==
    /\ WebRuns
    /\ pc = "page"
    /\ NotQueried
    /\ \E svc \in {"ok", "embedding_error"} :
          IF fs.exists
          THEN \E b \in {build_index(Initialized.session, fs, disk, indexed, apiKey, svc)} :
                   /\ session' = b.session
                   /\ disk' = b.disk
                   /\ indexed' = b.indexed
                   /\ shown' = IF b.error THEN "error" ELSE "page"
          ELSE /\ session' = Initialized.session
               /\ shown' = "error"
               /\ UNCHANGED <<disk, indexed>>
    /\ UNCHANGED <<apiKey, fs, embed, pyhash, vectorstore, entry, pc>>

\* The rebuild button of the sidebar, which is there when index_built.
WebRebuild ==
    /\ WebRuns
    /\ pc = "page"
    /\ session.index_built
    /\ \E svc \in {"ok", "embedding_error"} :
          \E b \in {build_index([Initialized.session EXCEPT !.initialized = FALSE,
                                                              !.index_built = FALSE],
                                  fs, Absent, <<>>, apiKey, svc)} :
              /\ Rebuilt([button |-> "rebuild"], b.error)
              /\ session' = b.session
              /\ disk' = b.disk
              /\ indexed' = b.indexed
              /\ shown' = IF b.error THEN "error" ELSE "page"
    /\ UNCHANGED <<apiKey, fs, embed, pyhash, vectorstore, entry, pc>>

\* The button that clears the chat history.
WebClear ==
    /\ WebRuns
    /\ pc = "page"
    /\ result' = [op |-> "clear", args |-> <<>>, raised |-> FALSE, ret |-> <<>>,
                  before |-> session.chat_history]
    /\ calls' = <<>>
    /\ session' = [Initialized.session EXCEPT !.chat_history = <<>>]
    /\ shown' = "page"
    /\ UNCHANGED <<apiKey, fs, disk, embed, pyhash, vectorstore, indexed, entry, pc>>

\* A prompt is submitted in the chat tab, which has its input when index_built.
WebChat ==
    /\ WebRuns
    /\ pc = "page"
    /\ session.index_built
    /\ Len(session.chat_history) + 2 <= MaxHistory
    /\ \E prompt \in AppQueries \ {<<>>}, svc \in ServiceOutcomes, a \in Answers :
          LET s == Initialized.session
              r == OnHandler(s.handler,
                             handle_query(s.handler.vectorstore, prompt, TRUE, svc, a))
          IN  /\ Queried("handle_query", [query |-> prompt, return_sources |-> TRUE], r)
              /\ session' = [s EXCEPT !.chat_history = chat_turns(@, prompt, r)]
              /\ shown' = IF r.raised THEN "error" ELSE "answer"
    /\ UNCHANGED <<apiKey, fs, disk, embed, pyhash, vectorstore, indexed, entry, pc>>

\* What the search tabs show for a call of the handler.
WebShows(r) ==
    IF r.raised THEN "error" ELSE IF r.ret = <<>> THEN "none found" ELSE "results"

\* The search button of the similar-case tab.
WebSearch ==
    /\ WebRuns
    /\ pc = "page"
    /\ session.index_built
    /\ \E query \in AppQueries, k \in WebKs, svc \in {"ok", "embedding_error"} :
          IF query = <<>>
          THEN /\ NotQueried
               /\ shown' = "warning"
          ELSE LET s == Initialized.session
                   r == OnHandler(s.handler,
                                  search_similar_cases(s.handler.vectorstore, query, k, svc))
               IN  /\ Queried("search_similar_cases", [query |-> query, k |-> k], r)
                   /\ shown' = WebShows(r)
    /\ session' = Initialized.session
    /\ UNCHANGED <<apiKey, fs, disk, embed, pyhash, vectorstore, indexed, entry, pc>>

\* The search button of the document tab.
WebDocuments ==
    /\ WebRuns
    /\ pc = "page"
    /\ session.index_built
    /\ \E query \in AppQueries, k \in WebKs, svc \in {"ok", "embedding_error"} :
          IF query = <<>>
          THEN /\ NotQueried
               /\ shown' = "warning"
          ELSE LET s == Initialized.session
                   r == OnHandler(s.handler,
                                  get_relevant_documents(s.handler.vectorstore, query, k, svc))
               IN  /\ Queried("get_relevant_documents", [query |-> query, k |-> k], r)
                   /\ shown' = WebShows(r)
    /\ session' = Initialized.session
    /\ UNCHANGED <<apiKey, fs, disk, embed, pyhash, vectorstore, indexed, entry, pc>>

NextApp ==
    \/ ConsoleStart
    \/ ConsoleAsk
    \/ ConsoleSearch
    \/ ConsoleDocuments
    \/ ConsoleRebuild
    \/ ConsoleQuit
    \/ ConsoleInvalid
    \/ DemoStart
    \/ DemoQuery
    \/ DemoSearch
    \/ WebLoad
    \/ WebBuild
    \/ WebRebuild
    \/ WebClear
    \/ WebChat
    \/ WebSearch
    \/ WebDocuments

SpecApp == InitApp /\ [][NextApp]_vars

(* Claims about the front ends *)

\* The last action called a method of the handler, and an embedding call or
\* the LLM call in it failed.
QueryFailed ==
    /\ result.op \in QueryOps
    /\ result.raised
    /\ calls # <<>>
    /\ ~calls[Len(calls)].ok

\* C10: a failure of an embedding call or of the LLM call during a query is
\* not caught by the handler but by the front end that issued the query, in
\* the web app, the console menu and the demo alike: the front end shows an
\* error message and keeps running.
C10_FailureCaughtByFrontEnd ==
    QueryFailed =>
        /\ shown = "error"
        /\ pc \notin {"crashed", "aborted"}

\* C11: without the API key the console and the demo stop at startup, at
\* their check of the key, before any index is built or loaded and before any
\* query is issued, while the web app keeps running.
C11_NoKeyStopsConsoleAndDemo ==
    (~apiKey /\ pc # "start") =>
        IF entry \in {"console", "demo"}
        THEN /\ pc = "aborted"
             /\ indexed = <<>>
             /\ vectorstore = None
             /\ result.op = "none"
        ELSE pc = "page"

\* The chunks of the documents the data folder holds now.
CurrentChunks == split_documents(load_all_documents(fs).ret)

\* The last action removed the index and built it again: the console's choice
\* 4 answered with yes, or the web app's rebuild button.
ForcedRebuild ==
    /\ result.op = "rebuild"
    /\ "confirm" \in DOMAIN result.args
           => Lower(Strip(result.args.confirm)) = <<"y", "e", "s">>

-----------------------------------------------------------------------------
(* The chunker on its own, over documents of every interesting length. *)

\* the most documents passed to one split
MaxSplitDocs == 2

\* n letters, the alphabet over and over
Letters(n) == [i \in 1..n |-> LowerCase[((i - 1) % 26) + 1]]

Capitals(n) == [i \in 1..n |-> UpperCase[((i - 1) % 26) + 1]]

\* Texts: empty, a blank, short, one character less than a chunk, a chunk,
\* one character more, three windows, and two paragraphs that do not fit one
\* chunk together.
SplitTexts ==
    {<<>>, <<" ">>, Letters(3) \o <<" ">> \o Capitals(3),
     Letters(ChunkSize - 1), Letters(ChunkSize), Letters(ChunkSize + 1),
     Letters(2 * ChunkSize - ChunkOverlap + 1),
     Letters(ChunkSize - 400) \o <<" ">> \o Capitals(ChunkSize - 400)}

SplitDocs ==
    {Doc(t, m) : t \in SplitTexts,
                 m \in {NoMeta, FileMeta("a.txt", "data/a.txt", ".txt")}}

InitSplit ==
    /\ apiKey = TRUE
    /\ fs = MissingFolder
    /\ disk = [state |-> "absent", docs |-> <<>>]
    /\ embed = <<>>
    /\ pyhash = <<>>
    /\ vectorstore = None
    /\ calls = <<>>
    /\ result = NoResult
    /\ indexed = <<>>
    /\ NoFrontEnd

\* self.text_splitter.split_documents(documents)
SplitDocuments ==
    /\ Ready
    /\ \E documents \in SeqsOf(SplitDocs, 0, MaxSplitDocs) :
          Called("split_documents", [documents |-> documents],
                 Returned(split_documents(documents), <<>>))

NextSplit ==
    \/ SplitDocuments
    \/ Discard

SpecSplit == InitSplit /\ [][NextSplit]_vars

(* Claims about the chunker *)

SplitResult == result.op = "split_documents"

\* The number of chunks of the documents before the n-th.
RECURSIVE ChunksBefore(_)
ChunksBefore(n) ==
    IF n <= 1
    THEN 0
    ELSE ChunksBefore(n - 1)
         + Len(split_text(result.args.documents[n - 1].page_content))

\* The chunks of the n-th document, in order.
ChunksOf(n) ==
    LET k == Len(split_text(result.args.documents[n].page_content))
    IN  [j \in 1..k |-> result.ret[ChunksBefore(n) + j]]

HasBlank(text) == \E i \in 1..Len(text) : text[i] = " "

\* The last ChunkOverlap characters of c are the first of d.
OverlapExactly(c, d) ==
    /\ Len(c) >= ChunkOverlap
    /\ Len(d) >= ChunkOverlap
    /\ SubSeq(c, Len(c) - ChunkOverlap + 1, Len(c)) = SubSeq(d, 1, ChunkOverlap)

WindowBegin(j) == (j - 1) * (ChunkSize - ChunkOverlap) + 1

WindowEnd(j, n) == Min(WindowBegin(j) + ChunkSize - 1, n)

IsPrefix(s, t) == Len(s) <= Len(t) /\ SubSeq(t, 1, Len(s)) = s

\* C14 as stated: no action of the web app removes or rewrites a turn of the
\* chat history; the history only grows at its end.
C14_HistoryAppendOnly ==
    [][IsPrefix(session.chat_history, session.chat_history')]_vars

\* C14, amended: the button that clears the chat history empties it; every
\* other action of the web app leaves the turns of the history as they are
\* and at most appends turns at its end.
C14_HistoryAppendOnlyButClear ==
    [][IF WebClear
       THEN session.chat_history' = <<>>
       ELSE IsPrefix(session.chat_history, session.chat_history')]_vars

\* A history of two prompts was cleared.
C14_Witness ==
    /\ result.op = "clear"
    /\ Len(result.before) = 4
    /\ session.chat_history = <<>>

\* The answers to the confirmation prompt that are yes once trimmed and
\* lower-cased.
YesAnswers == {<<"y", "e", "s">>, <<" ", "Y", "e", "s", " ">>}

ConsoleRebuildResult ==
    /\ entry = "console"
    /\ result.op = "rebuild"

\* C15: when the answer to the console's confirmation prompt is not yes, the
\* index on disk and the handler are left as they were and the menu goes on;
\* when it is yes, the index is removed and built again from the data folder,
\* and the handler is created again over it, or the process ends when the
\* build fails.
C15_RebuildNeedsYes ==
    ConsoleRebuildResult =>
        IF result.args.confirm \in YesAnswers
        THEN IF result.raised
             THEN /\ pc = "aborted"
                  /\ disk = Absent
             ELSE /\ pc = "menu"
                  /\ disk = [state |-> "index", docs |-> CurrentChunks]
                  /\ vectorstore = Store(CurrentChunks)
        ELSE /\ pc = "menu"
             /\ ~result.raised
             /\ disk = result.before.disk
             /\ vectorstore = result.before.vectorstore

\* The answer was no, and the index of an earlier data folder and the handler
\* over it are still there.
C15_Witness ==
    /\ ConsoleRebuildResult
    /\ result.args.confirm = <<"n", "o">>
    /\ disk = [state |-> "index", docs |-> <<OldChunk>>]
    /\ vectorstore = Store(<<OldChunk>>)
    /\ pc = "menu"

\* C16: in every state of the web session after initialize_system has run,
\* index_built implies that the session has a handler, so that the tabs, which
\* query only when index_built, never call a method of None.
C16_IndexBuiltHasHandler ==
    (entry = "web" /\ pc = "page") =>
        /\ session.index_built => session.handler.exists
        /\ (result.op \in QueryOps /\ result.raised) => calls # <<>>

\* A rebuild failed: the index is not built, and the session still has its
\* handler.
C16_Witness ==
    /\ entry = "web"
    /\ result.op = "rebuild"
    /\ result.raised
    /\ ~session.index_built
    /\ session.handler.exists
    /\ disk = Absent

\* C17: every prompt of the web chat appends one user turn and then one
\* assistant turn, the answer with its sources when the query succeeds and an
\* error message without sources when it raises; so the chat history is
\* always user and assistant turns in alternation, beginning with a user turn,
\* and of even length.
C17_TurnsAlternate ==
    entry = "web" =>
        LET h == session.chat_history
        IN  /\ Len(h) % 2 = 0
            /\ \A i \in 1..Len(h) :
                  h[i].role = IF i % 2 = 1 THEN "user" ELSE "assistant"
            /\ (result.op = "handle_query") =>
                  /\ Len(h) >= 2
                  /\ h[Len(h) - 1] = UserTurn(result.args.query)
                  /\ IF result.raised
                     THEN /\ h[Len(h)].role = "assistant"
                          /\ "sources" \notin DOMAIN h[Len(h)]
                     ELSE h[Len(h)] = AssistantTurn(result.ret.answer, result.ret.sources)

\* A second prompt raised after a first one was answered with its sources.
C17_Witness ==
    /\ entry = "web"
    /\ result.op = "handle_query"
    /\ result.raised
    /\ Len(session.chat_history) = 4
    /\ session.chat_history[2].sources # <<>>
    /\ "sources" \notin DOMAIN session.chat_history[4]

====
